---- MODULE Spec2Model ----
(***************************************************************************)
(* Model of the invoice extraction pipeline (invoice_extractor.py, the CLI *)
(* runner, and app.py, the web form): document loader, model gateway call, *)
(* response normaliser and record store.                                   *)
(*                                                                         *)
(* Text is a sequence of atoms.  An atom is one character (" ", "\n", "{", *)
(* ...; the backquote is spelled BQ) or a word of letters, digits and "_"  *)
(* that no operation of the program splits (a column name, a file stem,    *)
(* "json", "null").                                                        *)
(* Python values are tagged records:                                       *)
(*   None [t |-> "null"], a number [t |-> "num", n |-> 0..9],              *)
(*   a str [t |-> "str", s |-> text], a list [t |-> "arr", a |-> <<..>>],  *)
(*   a dict [t |-> "obj", m |-> <<[k |-> text, v |-> value], ...>>] in     *)
(*   insertion order, as Python dicts are.                                 *)
(***************************************************************************)
EXTENDS Integers, Sequences, FiniteSets, TLC

VARIABLES
    pdfSupport,   \* PDF_SUPPORT: whether pdf2image could be imported
    csvExists,    \* CSV_FILE.exists()
    csvText,      \* content of invoices_data.csv
    appends,      \* append_to_csv calls that ran to their end
    jsonDir,      \* files under invoices_json/: set of [name, data]
    tmpFiles,     \* temporary files that exist (NamedTemporaryFile(delete=False))
    tmpMade,      \* temporary files created so far
    gatewayCalls, \* model.generate_content calls issued so far
    now,          \* the clock, in seconds
    cliArgs,      \* sys.argv[1:] of the CLI run
    cliPos,       \* index of the next file of the CLI loop
    cliPc,        \* "idle", "loop", "done" or "crashed" (an exception left main)
    handled,      \* documents handled so far, by either front-end
    last,         \* what handling the most recent document did
    writers,      \* processes inside append_to_csv at the same time (none: <<>>)
    fn,           \* pure-function harness: the function under study
    arg,          \* pure-function harness: its input
    ret           \* pure-function harness: its results

\* the files, the counters and the front-ends
progVars == <<pdfSupport, csvExists, csvText, appends, jsonDir, tmpFiles, tmpMade,
              gatewayCalls, now, cliArgs, cliPos, cliPc, handled, last, writers>>

vars == <<pdfSupport, csvExists, csvText, appends, jsonDir, tmpFiles, tmpMade,
          gatewayCalls, now, cliArgs, cliPos, cliPc, handled, last, writers, fn, arg, ret>>

(***************************************************************************)
(* Python values                                                           *)
(***************************************************************************)
None == [t |-> "null"]
Num(n) == [t |-> "num", n |-> n]
Str(s) == [t |-> "str", s |-> s]
Arr(a) == [t |-> "arr", a |-> a]
Obj(m) == [t |-> "obj", m |-> m]

\* the key of a dict entry is a text of one word
K(w) == <<w>>

\* isinstance(value, dict)
IsDict(v) == v.t = "obj"

\* key in d
HasKey(d, k) == \E i \in 1..Len(d.m) : d.m[i].k = k

\* d[key] for a key that is present
Lookup(d, k) == d.m[CHOOSE i \in 1..Len(d.m) : d.m[i].k = k].v

\* d.get(key): None when the key is absent
DictGet(d, k) == IF HasKey(d, k) THEN Lookup(d, k) ELSE None

\* d.get(key, default)
DictGetDefault(d, k, default) == IF HasKey(d, k) THEN Lookup(d, k) ELSE default

\* d[key] = value: overwrites in place, or appends
DictSet(d, k, v) ==
    IF HasKey(d, k)
    THEN Obj([i \in 1..Len(d.m) |-> IF d.m[i].k = k THEN [k |-> k, v |-> v] ELSE d.m[i]])
    ELSE Obj(Append(d.m, [k |-> k, v |-> v]))

\* bool(value): None, 0, "", [] and {} are falsy
Truthy(v) ==
    CASE v.t = "null" -> FALSE
      [] v.t = "num" -> v.n # 0
      [] v.t = "str" -> v.s # <<>>
      [] v.t = "arr" -> v.a # <<>>
      [] v.t = "obj" -> v.m # <<>>

\* a or b
PyOr(a, b) == IF Truthy(a) THEN a ELSE b

(***************************************************************************)
(* Python str operations                                                   *)
(***************************************************************************)
\* the backquote character, three of which make a code-fence marker
BQ == "<backquote>"

\* the characters str.strip() removes
Whitespace == {" ", "\n", "\r", "\t"}

RECURSIVE lstrip(_)
lstrip(s) == IF s # <<>> /\ Head(s) \in Whitespace THEN lstrip(Tail(s)) ELSE s

RECURSIVE rstrip(_)
rstrip(s) ==
    IF s # <<>> /\ s[Len(s)] \in Whitespace THEN rstrip(SubSeq(s, 1, Len(s) - 1)) ELSE s

\* s.strip()
strip(s) == rstrip(lstrip(s))

\* old in s
Contains(s, old) ==
    \E i \in 1..(Len(s) - Len(old) + 1) : SubSeq(s, i, i + Len(old) - 1) = old

\* s.find(old, start): the first position at or after `start` where old
\* occurs, 0 when there is none
Find(s, old, start) ==
    LET hits == {i \in start..(Len(s) - Len(old) + 1) : SubSeq(s, i, i + Len(old) - 1) = old}
    IN  IF hits = {} THEN 0 ELSE CHOOSE i \in hits : \A j \in hits : i <= j

\* s.replace(old, new) from position `start` on: every non-overlapping
\* occurrence, left to right
RECURSIVE ReplaceFrom(_, _, _, _)
ReplaceFrom(s, old, new, start) ==
    LET i == Find(s, old, start) IN
    IF i = 0 THEN SubSeq(s, start, Len(s))
    ELSE SubSeq(s, start, i - 1) \o new \o ReplaceFrom(s, old, new, i + Len(old))

\* s.replace(old, new)
replace(s, old, new) == ReplaceFrom(s, old, new, 1)

\* s.lower() of a word
Lower(w) ==
    CASE w = "JPG" -> "jpg"
      [] w = "PNG" -> "png"
      [] w = "PDF" -> "pdf"
      [] OTHER -> w

(***************************************************************************)
(* json.loads and json.dump                                                *)
(***************************************************************************)
Digits == <<"0", "1", "2", "3", "4", "5", "6", "7", "8", "9">>

IsDigit(a) == \E n \in 1..Len(Digits) : Digits[n] = a

DigitValue(a) == (CHOOSE n \in 1..Len(Digits) : Digits[n] = a) - 1

\* the atom at position i, "EOF" past the end of the text
At(s, i) == IF i >= 1 /\ i <= Len(s) THEN s[i] ELSE "EOF"

ParseFail == [ok |-> FALSE]

Parsed(v, i) == [ok |-> TRUE, v |-> v, i |-> i]

\* the first position at or after i that holds no JSON whitespace
RECURSIVE SkipWs(_, _)
SkipWs(s, i) == IF At(s, i) \in Whitespace THEN SkipWs(s, i + 1) ELSE i

\* what a backslash escape stands for ("" when it is no escape)
Unescape(c) ==
    CASE c = "n" -> "\n"
      [] c = "r" -> "\r"
      [] c = "t" -> "\t"
      [] c = "\"" -> "\""
      [] c = "\\" -> "\\"
      [] OTHER -> ""

\* a JSON string body from position i (after the opening quote); strict mode:
\* a raw control character inside a string is an error
RECURSIVE ScanString(_, _, _)
ScanString(s, i, acc) ==
    LET c == At(s, i) IN
    IF c = "EOF" \/ c \in {"\n", "\r", "\t"} THEN ParseFail
    ELSE IF c = "\"" THEN Parsed(acc, i + 1)
    ELSE IF c = "\\"
         THEN IF Unescape(At(s, i + 1)) = "" THEN ParseFail
              ELSE ScanString(s, i + 2, Append(acc, Unescape(At(s, i + 1))))
    ELSE ScanString(s, i + 1, Append(acc, c))

RECURSIVE ParseValue(_, _)
RECURSIVE ParseMembers(_, _, _)
RECURSIVE ParseElements(_, _, _)

\* key : value pairs from position i (at a key) into the dict acc; a repeated
\* key keeps its first place and takes the last value
ParseMembers(s, i, acc) ==
    IF At(s, i) # "\"" THEN ParseFail
    ELSE LET key == ScanString(s, i + 1, <<>>) IN
         IF ~key.ok THEN ParseFail
         ELSE LET colon == SkipWs(s, key.i) IN
              IF At(s, colon) # ":" THEN ParseFail
              ELSE LET val == ParseValue(s, SkipWs(s, colon + 1)) IN
                   IF ~val.ok THEN ParseFail
                   ELSE LET sep == SkipWs(s, val.i)
                            d == DictSet(acc, key.v, val.v)
                        IN  IF At(s, sep) = "," THEN ParseMembers(s, SkipWs(s, sep + 1), d)
                            ELSE IF At(s, sep) = "}" THEN Parsed(d, sep + 1)
                            ELSE ParseFail

ParseElements(s, i, acc) ==
    LET val == ParseValue(s, i) IN
    IF ~val.ok THEN ParseFail
    ELSE LET sep == SkipWs(s, val.i)
             a == Append(acc, val.v)
         IN  IF At(s, sep) = "," THEN ParseElements(s, SkipWs(s, sep + 1), a)
             ELSE IF At(s, sep) = "]" THEN Parsed(Arr(a), sep + 1)
             ELSE ParseFail

ParseValue(s, i) ==
    LET c == At(s, i) IN
    IF c = "null" THEN Parsed(None, i + 1)
    ELSE IF IsDigit(c) THEN Parsed(Num(DigitValue(c)), i + 1)
    ELSE IF c = "\""
         THEN LET str == ScanString(s, i + 1, <<>>) IN
              IF str.ok THEN Parsed(Str(str.v), str.i) ELSE ParseFail
    ELSE IF c = "{"
         THEN LET j == SkipWs(s, i + 1) IN
              IF At(s, j) = "}" THEN Parsed(Obj(<<>>), j + 1)
              ELSE ParseMembers(s, j, Obj(<<>>))
    ELSE IF c = "["
         THEN LET j == SkipWs(s, i + 1) IN
              IF At(s, j) = "]" THEN Parsed(Arr(<<>>), j + 1)
              ELSE ParseElements(s, j, <<>>)
    ELSE ParseFail

\* json.loads(s): [ok |-> TRUE, v |-> value], or [ok |-> FALSE] for
\* json.JSONDecodeError (no value, a malformed value, or data after the value)
ParseEnd(s, r) ==
    IF r.ok /\ SkipWs(s, r.i) > Len(s) THEN [ok |-> TRUE, v |-> r.v] ELSE [ok |-> FALSE]

json_loads(s) == ParseEnd(s, ParseValue(s, SkipWs(s, 1)))

\* the escape json.dump writes for one character of a string
Escape(c) ==
    CASE c = "\n" -> <<"\\", "n">>
      [] c = "\r" -> <<"\\", "r">>
      [] c = "\t" -> <<"\\", "t">>
      [] c = "\"" -> <<"\\", "\"">>
      [] c = "\\" -> <<"\\", "\\">>
      [] OTHER -> <<c>>

RECURSIVE EscapeAll(_)
EscapeAll(s) == IF s = <<>> THEN <<>> ELSE Escape(Head(s)) \o EscapeAll(Tail(s))

\* "\n" followed by the indentation of a nesting level (indent=2)
RECURSIVE Indent(_)
Indent(level) == IF level = 0 THEN <<>> ELSE <<" ", " ">> \o Indent(level - 1)

NewLine(level) == <<"\n">> \o Indent(level)

RECURSIVE json_dump(_, _)
RECURSIVE DumpMembers(_, _)
RECURSIVE DumpElements(_, _)

DumpMembers(m, level) ==
    LET one == <<"\"">> \o EscapeAll(m[1].k) \o <<"\"", ":", " ">>
                 \o json_dump(m[1].v, level)
    IN  IF Len(m) = 1 THEN one
        ELSE one \o <<",">> \o NewLine(level) \o DumpMembers(Tail(m), level)

DumpElements(a, level) ==
    IF Len(a) = 1 THEN json_dump(a[1], level)
    ELSE json_dump(a[1], level) \o <<",">> \o NewLine(level) \o DumpElements(Tail(a), level)

\* json.dump(value, f, ensure_ascii=False, indent=2), value nested at `level`
json_dump(v, level) ==
    CASE v.t = "null" -> <<"null">>
      [] v.t = "num" -> <<Digits[v.n + 1]>>
      [] v.t = "str" -> <<"\"">> \o EscapeAll(v.s) \o <<"\"">>
      [] v.t = "arr" ->
            IF v.a = <<>> THEN <<"[", "]">>
            ELSE <<"[">> \o NewLine(level + 1) \o DumpElements(v.a, level + 1)
                 \o NewLine(level) \o <<"]">>
      [] v.t = "obj" ->
            IF v.m = <<>> THEN <<"{", "}">>
            ELSE <<"{">> \o NewLine(level + 1) \o DumpMembers(v.m, level + 1)
                 \o NewLine(level) \o <<"}">>

(***************************************************************************)
(* str(value) and the csv writer                                           *)
(***************************************************************************)
\* the text repr() writes for the characters of a str
ReprChar(c) ==
    CASE c = "\n" -> <<"\\", "n">>
      [] c = "\r" -> <<"\\", "r">>
      [] c = "\t" -> <<"\\", "t">>
      [] c = "\\" -> <<"\\", "\\">>
      [] OTHER -> <<c>>

RECURSIVE ReprChars(_)
ReprChars(s) == IF s = <<>> THEN <<>> ELSE ReprChar(Head(s)) \o ReprChars(Tail(s))

RECURSIVE py_repr(_)
RECURSIVE ReprMembers(_)
RECURSIVE ReprElements(_)

ReprMembers(m) ==
    LET one == <<"'">> \o ReprChars(m[1].k) \o <<"'", ":", " ">> \o py_repr(m[1].v)
    IN  IF Len(m) = 1 THEN one ELSE one \o <<",", " ">> \o ReprMembers(Tail(m))

ReprElements(a) ==
    IF Len(a) = 1 THEN py_repr(a[1])
    ELSE py_repr(a[1]) \o <<",", " ">> \o ReprElements(Tail(a))

\* repr(value)
py_repr(v) ==
    CASE v.t = "null" -> <<"None">>
      [] v.t = "num" -> <<Digits[v.n + 1]>>
      [] v.t = "str" -> <<"'">> \o ReprChars(v.s) \o <<"'">>
      [] v.t = "arr" -> IF v.a = <<>> THEN <<"[", "]">>
                        ELSE <<"[">> \o ReprElements(v.a) \o <<"]">>
      [] v.t = "obj" -> IF v.m = <<>> THEN <<"{", "}">>
                        ELSE <<"{">> \o ReprMembers(v.m) \o <<"}">>

\* str(value): a str is itself, anything else is its repr
py_str(v) == IF v.t = "str" THEN v.s ELSE py_repr(v)

\* len(value); TypeError for None and numbers
HasLen(v) == v.t \in {"str", "arr", "obj"}

py_len(v) ==
    CASE v.t = "str" -> Len(v.s)
      [] v.t = "arr" -> Len(v.a)
      [] v.t = "obj" -> Len(v.m)

\* the text the csv writer writes for a cell value: None is the empty text
CsvCellText(v) == IF v.t = "null" THEN <<>> ELSE py_str(v)

\* QUOTE_MINIMAL: a field is quoted when it holds the delimiter, the quote
\* character or a character of the line terminator
CsvNeedsQuote(s) == \E i \in 1..Len(s) : s[i] \in {",", "\"", "\r", "\n"}

CsvField(s) ==
    IF CsvNeedsQuote(s) THEN <<"\"">> \o replace(s, <<"\"">>, <<"\"", "\"">>) \o <<"\"">>
    ELSE s

RECURSIVE CsvJoin(_)
CsvJoin(cells) ==
    IF Len(cells) = 1 THEN CsvField(cells[1])
    ELSE CsvField(cells[1]) \o <<",">> \o CsvJoin(Tail(cells))

\* writer.writerow: the fields, comma separated, and the line terminator
CsvLine(cells) == CsvJoin(cells) \o <<"\r", "\n">>

(***************************************************************************)
(* app.py: safe_get and clean_value                                        *)
(***************************************************************************)
\* safe_get with `if not value` where the code has `if value is None`
RECURSIVE safe_get_falsy(_, _, _)
safe_get_falsy(data, keys, default) ==
    IF keys = <<>> THEN (IF Truthy(data) THEN data ELSE default)
    ELSE IF ~IsDict(data) THEN default
    ELSE LET value == DictGet(data, Head(keys)) IN
         IF ~Truthy(value) THEN default
         ELSE safe_get_falsy(value, Tail(keys), default)

\* safe_get(data, *keys, default): the loop over the keys, then the final test
RECURSIVE safe_get(_, _, _)
safe_get(data, keys, default) ==
    IF keys = <<>> THEN (IF data.t # "null" THEN data ELSE default)
    ELSE IF ~IsDict(data) THEN default
    ELSE LET value == DictGet(data, Head(keys)) IN
         IF value.t = "null" THEN default
         ELSE safe_get(value, Tail(keys), default)

\* the default of safe_get when none is given
EmptyStr == Str(<<>>)

\* one value.replace("  ", " ") where the code loops
CollapseSpaces_once(s) == replace(s, <<" ", " ">>, <<" ">>)

\* while "  " in value: value = value.replace("  ", " ")
RECURSIVE CollapseSpaces(_)
CollapseSpaces(s) ==
    IF Contains(s, <<" ", " ">>) THEN CollapseSpaces(replace(s, <<" ", " ">>, <<" ">>))
    ELSE s

clean_value(value) ==
    IF value.t = "null" THEN EmptyStr
    ELSE IF value.t = "num" THEN value
    ELSE Str(CollapseSpaces(
             replace(replace(strip(py_str(value)), <<"\n">>, <<" ">>), <<"\r">>, <<" ">>)))

(***************************************************************************)
(* File names                                                              *)
(***************************************************************************)
LowerText(s) == [i \in 1..Len(s) |-> Lower(s[i])]

\* the position of the last "." of a name, 0 when it has none
LastDot(name) ==
    IF \E i \in 1..Len(name) : name[i] = "."
    THEN CHOOSE i \in 1..Len(name) :
             name[i] = "." /\ \A j \in (i + 1)..Len(name) : name[j] # "."
    ELSE 0

\* Path(name).suffix: from the last ".", unless it starts or ends the name
Suffix(name) ==
    IF LastDot(name) > 1 /\ LastDot(name) < Len(name)
    THEN SubSeq(name, LastDot(name), Len(name))
    ELSE <<>>

\* Path(name).stem
Stem(name) == SubSeq(name, 1, Len(name) - Len(Suffix(name)))

\* name.split('.')[-1]: what follows the last ".", the whole name without one
SplitLast(name) == SubSeq(name, LastDot(name) + 1, Len(name))

(***************************************************************************)
(* Configuration                                                           *)
(***************************************************************************)
MODEL_ID == <<"gemini-2.5-pro">>

CLI_IMAGE_EXTENSIONS == {<<".", "jpg">>, <<".", "jpeg">>, <<".", "png">>, <<".", "webp">>}
CLI_PDF_EXTENSIONS == {<<".", "pdf">>}
CLI_SUPPORTED_EXTENSIONS == CLI_IMAGE_EXTENSIONS \cup CLI_PDF_EXTENSIONS

WEB_IMAGE_EXTENSIONS == {<<"jpg">>, <<"jpeg">>, <<"png">>, <<"webp">>}
WEB_PDF_EXTENSIONS(pdf) == IF pdf THEN {<<"pdf">>} ELSE {}

\* the code-fence markers the normaliser removes
FenceJson == <<BQ, BQ, BQ, "json">>
Fence == <<BQ, BQ, BQ>>

\* the columns of the consolidated log
Fieldnames ==
    <<"data_extracao", "arquivo_origem", "tipo_arquivo", "razao_social", "cnpj",
      "endereco", "data_emissao", "numero_nota", "qtd_itens", "valor_total_nota",
      "icms", "iss">>

\* datetime.now().isoformat() and .strftime("%Y%m%d_%H%M%S") at second t
IsoFormat(t) == <<"T", Digits[t + 1]>>
StrfTime(t) == <<"D", Digits[t + 1]>>

(***************************************************************************)
(* Document loader                                                         *)
(* A document is [name, exists, readable, pages]: its file name, whether   *)
(* the path exists (CLI), whether PIL / pdf2image can decode its bytes,    *)
(* and the number of pages rasterisation yields.                           *)
(***************************************************************************)
Loaded(n, made, left) == [res |-> "images", n |-> n, made |-> made, left |-> left]
LoadNone == [res |-> "none", n |-> 0, made |-> 0, left |-> 0]
LoadRaise(made, left) == [res |-> "raise", n |-> 0, made |-> made, left |-> left]

\* load_file taking what follows the last "." for the extension, as
\* name.split('.')[-1] does, where the code takes Path(file_path).suffix
cli_load_file_split(doc, pdf) ==
    LET extension == <<".">> \o LowerText(SplitLast(doc.name)) IN
    IF extension \notin CLI_SUPPORTED_EXTENSIONS THEN LoadNone
    ELSE IF extension \in CLI_IMAGE_EXTENSIONS
         THEN IF doc.readable THEN Loaded(1, 0, 0) ELSE LoadRaise(0, 0)
    ELSE IF ~pdf THEN LoadNone
    ELSE IF doc.readable THEN Loaded(doc.pages, 0, 0) ELSE LoadRaise(0, 0)

\* invoice_extractor.py load_file
cli_load_file(doc, pdf) ==
    LET extension == LowerText(Suffix(doc.name)) IN
    IF extension \notin CLI_SUPPORTED_EXTENSIONS THEN LoadNone
    ELSE IF extension \in CLI_IMAGE_EXTENSIONS
         THEN IF doc.readable THEN Loaded(1, 0, 0) ELSE LoadRaise(0, 0)
    ELSE IF ~pdf THEN LoadNone
    ELSE IF doc.readable THEN Loaded(doc.pages, 0, 0) ELSE LoadRaise(0, 0)

\* app.py load_file: `made` temporary files are created, `left` of them
\* still exist when it returns or raises (os.unlink follows convert_from_path)
web_load_file(doc, pdf) ==
    LET file_extension == LowerText(SplitLast(doc.name)) IN
    IF file_extension \in WEB_IMAGE_EXTENSIONS
    THEN IF doc.readable THEN Loaded(1, 0, 0) ELSE LoadRaise(0, 0)
    ELSE IF file_extension \in WEB_PDF_EXTENSIONS(pdf)
         THEN IF doc.readable THEN Loaded(doc.pages, 1, 0) ELSE LoadRaise(1, 1)
    ELSE LoadNone

(***************************************************************************)
(* Gateway call and response normaliser                                    *)
(* A reply is [kind |-> "raise"] (generate_content or response.text        *)
(* raises) or [kind |-> "text", text |-> response.text].                   *)
(***************************************************************************)
\* json_text = response.text.strip();
\* json_text = json_text.replace("```json", "").replace("```", "").strip()
Normalize(text) == strip(replace(replace(strip(text), FenceJson, <<>>), Fence, <<>>))

\* the two normaliser lines and json.loads(json_text)
ParseReply(text) == json_loads(Normalize(text))

Metadata(name, tipo, paginas, t) ==
    Obj(<<[k |-> K("arquivo_origem"), v |-> Str(name)],
          [k |-> K("tipo_arquivo"), v |-> Str(tipo)],
          [k |-> K("paginas"), v |-> Num(paginas)],
          [k |-> K("data_extracao"), v |-> Str(IsoFormat(t))],
          [k |-> K("modelo"), v |-> Str(MODEL_ID)]>>)

Extracted(data, load) ==
    [status |-> "ok", data |-> data, error |-> "", load |-> load, called |-> TRUE]
ExtractFail(error, load, called) ==
    [status |-> "fail", data |-> None, error |-> error, load |-> load, called |-> called]
ExtractRaise(load) ==
    [status |-> "raise", data |-> None, error |-> "", load |-> load, called |-> FALSE]

\* the try block of extract_invoice_data from json.loads on: JSONDecodeError
\* is reported; invoice_data["_metadata"] = ... raises TypeError unless
\* json.loads gave a dict, and except Exception reports it
AttachMetadata(parsed, load, name, tipo, t) ==
    IF ~parsed.ok THEN ExtractFail("Erro ao parsear JSON", load, TRUE)
    ELSE IF ~IsDict(parsed.v) THEN ExtractFail("Erro", load, TRUE)
    ELSE Extracted(DictSet(parsed.v, K("_metadata"), Metadata(name, tipo, load.n, t)), load)

\* the try block of extract_invoice_data, the same in both front-ends: the
\* gateway call, the empty-text test, the normaliser, json.loads and the
\* metadata
TryExtract(reply, load, name, tipo, t) ==
    IF reply.kind = "raise" THEN ExtractFail("Erro", load, TRUE)
    ELSE IF reply.text = <<>> THEN ExtractFail("Resposta vazia do modelo", load, TRUE)
    ELSE AttachMetadata(ParseReply(reply.text), load, name, tipo, t)

\* extract_invoice_data once load_file was called, outside try: its
\* exception leaves the function; None or no image is reported
ExtractFrom(images, reply, name, tipo, t) ==
    IF images.res = "raise" THEN ExtractRaise(images)
    ELSE IF images.res = "none" \/ images.n = 0
         THEN ExtractFail("Nao foi possivel carregar o arquivo", images, FALSE)
    ELSE TryExtract(reply, images, name, tipo, t)

\* invoice_extractor.py extract_invoice_data
cli_extract_invoice_data(doc, reply, pdf, t) ==
    IF ~doc.exists THEN ExtractFail("Arquivo nao encontrado", LoadNone, FALSE)
    ELSE ExtractFrom(cli_load_file(doc, pdf), reply, doc.name, LowerText(Suffix(doc.name)), t)

\* app.py extract_invoice_data
web_extract_invoice_data(doc, reply, pdf, t) ==
    ExtractFrom(web_load_file(doc, pdf), reply, doc.name,
                <<".">> \o LowerText(SplitLast(doc.name)), t)

(***************************************************************************)
(* Record store                                                            *)
(***************************************************************************)
\* save_json: invoices_json/<stem>_<timestamp>.json, opened with 'w'
JsonFileName(file_name, t) == Stem(file_name) \o <<"_">> \o StrfTime(t) \o <<".", "json">>

save_json(invoice_data, file_name, t) ==
    [name |-> JsonFileName(file_name, t), text |-> json_dump(invoice_data, 0)]

\* open(json_filename, 'w') and the write: a file of that name is replaced
WriteFile(dir, file) == {f \in dir : f.name # file.name} \cup {file}

EmptyDict == Obj(<<>>)
EmptyList == Arr(<<>>)

RowRaise == [ok |-> FALSE, row |-> <<>>]
Row(cells) == [ok |-> TRUE, row |-> cells]

\* invoice_extractor.py append_to_csv, up to the row: emitente.get and
\* impostos.get raise AttributeError on a truthy value that is no dict,
\* len(itens) raises TypeError on a number
cli_csv_row(invoice_data) ==
    LET emitente == PyOr(DictGetDefault(invoice_data, K("emitente"), EmptyDict), EmptyDict)
        impostos == PyOr(DictGetDefault(invoice_data, K("impostos"), EmptyDict), EmptyDict)
        metadata == DictGetDefault(invoice_data, K("_metadata"), EmptyDict)
        itens == PyOr(DictGetDefault(invoice_data, K("itens"), EmptyList), EmptyList)
    IN  IF ~HasLen(itens) \/ ~IsDict(emitente) \/ ~IsDict(impostos) \/ ~IsDict(metadata)
        THEN RowRaise
        ELSE Row(<<DictGetDefault(metadata, K("data_extracao"), EmptyStr),
                   DictGetDefault(metadata, K("arquivo_origem"), EmptyStr),
                   DictGetDefault(metadata, K("tipo_arquivo"), EmptyStr),
                   DictGetDefault(emitente, K("razao_social"), EmptyStr),
                   DictGetDefault(emitente, K("cnpj"), EmptyStr),
                   DictGetDefault(emitente, K("endereco"), EmptyStr),
                   DictGetDefault(invoice_data, K("data_emissao"), EmptyStr),
                   DictGetDefault(invoice_data, K("numero_nota"), EmptyStr),
                   Num(py_len(itens)),
                   DictGetDefault(invoice_data, K("valor_total_nota"), EmptyStr),
                   DictGetDefault(impostos, K("icms"), EmptyStr),
                   DictGetDefault(impostos, K("iss"), EmptyStr)>>)

\* app.py append_to_csv, up to the row: len(itens) raises TypeError on a number
web_csv_row(invoice_data) ==
    LET metadata == PyOr(DictGetDefault(invoice_data, K("_metadata"), EmptyDict), EmptyDict)
        itens == PyOr(DictGetDefault(invoice_data, K("itens"), EmptyList), EmptyList)
    IN  IF ~HasLen(itens) THEN RowRaise
        ELSE Row(<<clean_value(safe_get(metadata, <<K("data_extracao")>>, EmptyStr)),
                   clean_value(safe_get(metadata, <<K("arquivo_origem")>>, EmptyStr)),
                   clean_value(safe_get(metadata, <<K("tipo_arquivo")>>, EmptyStr)),
                   clean_value(safe_get(invoice_data, <<K("emitente"), K("razao_social")>>, EmptyStr)),
                   clean_value(safe_get(invoice_data, <<K("emitente"), K("cnpj")>>, EmptyStr)),
                   clean_value(safe_get(invoice_data, <<K("emitente"), K("endereco")>>, EmptyStr)),
                   clean_value(safe_get(invoice_data, <<K("data_emissao")>>, EmptyStr)),
                   clean_value(safe_get(invoice_data, <<K("numero_nota")>>, EmptyStr)),
                   Num(py_len(itens)),
                   clean_value(safe_get(invoice_data, <<K("valor_total_nota")>>, EmptyStr)),
                   clean_value(safe_get(invoice_data, <<K("impostos"), K("icms")>>, EmptyStr)),
                   clean_value(safe_get(invoice_data, <<K("impostos"), K("iss")>>, EmptyStr))>>)

\* writer.writeheader()
HeaderLine == CsvLine([i \in 1..Len(Fieldnames) |-> <<Fieldnames[i]>>])

\* writer.writerow(row)
RowLine(row) == CsvLine([i \in 1..Len(row) |-> CsvCellText(row[i])])

\* append_to_csv writing the header when the file did exist
csv_write_inverted(file_exists, line) == (IF file_exists THEN HeaderLine ELSE <<>>) \o line

\* what one append_to_csv call appends to the log: open(CSV_FILE, 'a'), the
\* header when file_exists was false, then the row
csv_write(file_exists, line) == (IF file_exists THEN <<>> ELSE HeaderLine) \o line

\* invoice_extractor.py print_summary raises on a truthy emitente or impostos
\* that is no dict (.get), on itens that cannot be iterated, and on an item of
\* itens that is no dict (item.get); iterating a dict or a str yields strs
print_summary_ok(invoice_data) ==
    LET emitente == PyOr(DictGetDefault(invoice_data, K("emitente"), EmptyDict), EmptyDict)
        impostos == PyOr(DictGetDefault(invoice_data, K("impostos"), EmptyDict), EmptyDict)
        itens == PyOr(DictGetDefault(invoice_data, K("itens"), EmptyList), EmptyList)
    IN  /\ IsDict(emitente)
        /\ IsDict(impostos)
        /\ itens.t = "arr"
        /\ \A i \in 1..Len(itens.a) : IsDict(itens.a[i])

(***************************************************************************)
(* Bounds and inputs                                                       *)
(***************************************************************************)
MaxDocs == 2      \* documents handled in one behaviour, by both front-ends
MaxArgs == 2      \* files on one CLI command line

Doc(name, exists, readable, pages) ==
    [name |-> name, exists |-> exists, readable |-> readable, pages |-> pages]

Documents ==
    {Doc(<<"nota", ".", "jpg">>, TRUE, TRUE, 1),      \* a photo
     Doc(<<"foto", ".", "PNG">>, TRUE, FALSE, 0),     \* bytes PIL cannot identify
     Doc(<<"nf", ".", "pdf">>, TRUE, TRUE, 2),        \* a two-page PDF
     Doc(<<"ruim", ".", "pdf">>, TRUE, FALSE, 0),     \* a PDF poppler rejects
     Doc(<<"notas", ".", "txt">>, TRUE, TRUE, 1),     \* an unsupported extension
     Doc(<<"jpg">>, TRUE, TRUE, 1),                   \* a photo saved without an extension
     Doc(<<"sumiu", ".", "webp">>, FALSE, TRUE, 1)}   \* a path that does not exist

\* st.file_uploader(type=SUPPORTED_EXTENSIONS) takes a file only when the
\* extension of its name is one of the listed types; an upload is held in
\* memory, so there is no path that may not exist
Uploads(pdf) ==
    {doc \in Documents :
        /\ doc.exists
        /\ Suffix(doc.name) # <<>>
        /\ LowerText(Tail(Suffix(doc.name))) \in WEB_IMAGE_EXTENSIONS \cup WEB_PDF_EXTENSIONS(pdf)}

Entry(k, v) == [k |-> K(k), v |-> v]

\* the example record of the prompt
RecFull ==
    Obj(<<Entry("emitente", Obj(<<Entry("razao_social", Str(<<"ACME">>)),
                                  Entry("cnpj", Str(<<"00.000.000/0001-00">>)),
                                  Entry("endereco", Str(<<"Rua", " ", "X">>))>>)),
          Entry("data_emissao", Str(<<"01/01/2024">>)),
          Entry("numero_nota", Str(<<"123">>)),
          Entry("itens", Arr(<<Obj(<<Entry("descricao", Str(<<"Item", " ", "A">>)),
                                     Entry("valor_total", Num(9))>>)>>)),
          Entry("valor_total_nota", Num(9)),
          Entry("impostos", Obj(<<Entry("icms", Num(1)), Entry("iss", None)>>))>>)

\* strings with surrounding blanks, line breaks, runs of spaces and a comma;
\* a number where a string is expected; null fields; endereco left out; a
\* _metadata of the model's own
RecMessy ==
    Obj(<<Entry("emitente", Obj(<<Entry("razao_social",
                                        Str(<<" ", "ACME", "\n", " ", "Ltda", " ", " ", "SA", "\r">>)),
                                  Entry("cnpj", None)>>)),
          Entry("data_emissao", Str(<<"01", ",", "02">>)),
          Entry("numero_nota", Num(7)),
          Entry("itens", None),
          Entry("valor_total_nota", Str(<<"9">>)),
          Entry("impostos", None),
          Entry("_metadata", Str(<<"x">>))>>)

\* emitente that is no mapping
RecBadEmitente ==
    Obj(<<Entry("emitente", Str(<<"ACME">>)), Entry("itens", Arr(<<>>))>>)

\* itens that is no list
RecBadItens ==
    Obj(<<Entry("emitente", Obj(<<Entry("razao_social", Str(<<"ACME">>))>>)),
          Entry("itens", Num(5))>>)

Records == {RecFull, RecMessy, RecBadEmitente, RecBadItens}

TextReply(text) == [kind |-> "text", text |-> text]

Fenced(text) == FenceJson \o <<"\n">> \o text \o <<"\n">> \o Fence

Replies ==
    {[kind |-> "raise"],                                \* network or auth failure
     TextReply(<<>>),                                   \* no text at all
     TextReply(<<"Desculpe", ",", " ", "sem", " ", "nota">>),   \* not JSON
     TextReply(<<"[", "]">>)}                           \* JSON, but no object
        \cup {TextReply(IF r = RecFull THEN Fenced(json_dump(r, 0)) ELSE json_dump(r, 0)) :
                 r \in Records}

RECURSIVE SeqsUpTo(_, _)
SeqsUpTo(S, n) ==
    IF n = 0 THEN {<<>>}
    ELSE SeqsUpTo(S, n - 1) \cup {Append(q, x) : q \in SeqsUpTo(S, n - 1), x \in S}

(***************************************************************************)
(* Front-ends                                                              *)
(***************************************************************************)
NoFile == [name |-> <<>>, text |-> <<>>]

\* what handling one document does: the extraction, whether an exception
\* left the handler, whether save_json and append_to_csv ran to their end,
\* the artifact written and the row and log line appended
Effect(ex, raised, saved, appended, file, row) ==
    [ex |-> ex, raised |-> raised, saved |-> saved, appended |-> appended,
     file |-> file, row |-> row, line |-> IF appended THEN RowLine(row) ELSE <<>>]

\* save_json(...) wrote `file`, then append_to_csv(...): an exception while
\* it builds the row leaves the handler before the log is opened
Store(ex, file, row) ==
    IF ~row.ok THEN Effect(ex, TRUE, TRUE, FALSE, file, <<>>)
    ELSE Effect(ex, FALSE, TRUE, TRUE, file, row.row)

\* invoice_extractor.py main, the body of `for file_path in file_paths` once
\* extract_invoice_data returned or raised: `if invoice_data:` print_summary,
\* save_json, append_to_csv
cli_after_extract(doc, ex, t) ==
    IF ex.status = "raise" THEN Effect(ex, TRUE, FALSE, FALSE, NoFile, <<>>)
    ELSE IF ex.status = "fail" \/ ~Truthy(ex.data)
         THEN Effect(ex, FALSE, FALSE, FALSE, NoFile, <<>>)
    ELSE IF ~print_summary_ok(ex.data) THEN Effect(ex, TRUE, FALSE, FALSE, NoFile, <<>>)
    ELSE Store(ex, save_json(ex.data, doc.name, t), cli_csv_row(ex.data))

cli_main_body(doc, reply, pdf, t) ==
    cli_after_extract(doc, cli_extract_invoice_data(doc, reply, pdf, t), t)

\* the handler with save_json moved before the `if error:` test
web_after_extract_save_first(doc, ex, t) ==
    IF ex.status = "raise" THEN Effect(ex, TRUE, FALSE, FALSE, NoFile, <<>>)
    ELSE IF ex.error # ""
         THEN Effect(ex, FALSE, TRUE, FALSE, save_json(ex.data, doc.name, t), <<>>)
    ELSE Store(ex, save_json(ex.data, doc.name, t), web_csv_row(ex.data))

\* app.py main, the handler of the "Extrair Dados" button once
\* extract_invoice_data returned or raised: `if error:` st.error, else
\* save_json, append_to_csv
web_after_extract(doc, ex, t) ==
    IF ex.status = "raise" THEN Effect(ex, TRUE, FALSE, FALSE, NoFile, <<>>)
    ELSE IF ex.error # "" THEN Effect(ex, FALSE, FALSE, FALSE, NoFile, <<>>)
    ELSE Store(ex, save_json(ex.data, doc.name, t), web_csv_row(ex.data))

web_button_body(doc, reply, pdf, t) ==
    web_after_extract(doc, web_extract_invoice_data(doc, reply, pdf, t), t)

\* the two bodies, evaluated once for every input of the model
Seconds == 0..MaxDocs

CliBody ==
    [doc \in Documents, reply \in Replies, pdf \in BOOLEAN, t \in Seconds |->
        cli_main_body(doc, reply, pdf, t)]

WebBody ==
    [doc \in Documents, reply \in Replies, pdf \in BOOLEAN, t \in Seconds |->
        web_button_body(doc, reply, pdf, t)]

NoDoc == Doc(<<>>, FALSE, FALSE, 0)

Handling(front, doc, eff) ==
    [front |-> front, doc |-> doc, extract |-> eff.ex.status, error |-> eff.ex.error,
     load |-> eff.ex.load.res, called |-> eff.ex.called, data |-> eff.ex.data,
     saved |-> eff.saved, appended |-> eff.appended, raised |-> eff.raised,
     row |-> eff.row]

PureIdle == fn = "" /\ arg = <<>> /\ ret = <<>>

\* nothing written, no document handled, no function under study
InitRun ==
    /\ pdfSupport \in BOOLEAN
    /\ csvExists = FALSE
    /\ csvText = <<>>
    /\ appends = 0
    /\ jsonDir = {}
    /\ tmpFiles = 0
    /\ tmpMade = 0
    /\ gatewayCalls = 0
    /\ now = 0
    /\ cliArgs = <<>>
    /\ cliPos = 1
    /\ cliPc = "idle"
    /\ handled = 0
    /\ last = Handling("none", NoDoc,
                       Effect(ExtractFail("", LoadNone, FALSE), FALSE, FALSE, FALSE, NoFile, <<>>))
    /\ PureIdle

\* one writer at a time: no process is inside append_to_csv between steps
Init == InitRun /\ writers = <<>>

\* the state after one document was handled with effect eff; the clock is
\* read (at second t) only once json.loads has given a dict
Handle(front, doc, eff, t) ==
    /\ last' = Handling(front, doc, eff)
    /\ handled' = handled + 1
    /\ now' = (IF eff.ex.status = "ok" THEN t ELSE now)
    /\ tmpMade' = tmpMade + eff.ex.load.made
    /\ tmpFiles' = tmpFiles + eff.ex.load.left
    /\ gatewayCalls' = gatewayCalls + (IF eff.ex.called THEN 1 ELSE 0)
    /\ jsonDir' = (IF eff.saved THEN WriteFile(jsonDir, eff.file) ELSE jsonDir)
    /\ csvText' = (IF eff.appended THEN csvText \o csv_write(csvExists, eff.line) ELSE csvText)
    /\ csvExists' = (csvExists \/ eff.appended)
    /\ appends' = appends + (IF eff.appended THEN 1 ELSE 0)

\* invoice_extractor.py main: python invoice_extractor.py <files>
CliStart ==
    /\ fn = ""
    /\ cliPc \in {"idle", "done", "crashed"}
    /\ handled < MaxDocs
    /\ \E args \in SeqsUpTo(Documents, MaxArgs) \ {<<>>} :
          /\ Len(args) <= MaxDocs - handled
          /\ cliArgs' = args
          /\ cliPos' = 1
          /\ cliPc' = "loop"
    /\ UNCHANGED <<pdfSupport, csvExists, csvText, appends, jsonDir, tmpFiles, tmpMade,
                   gatewayCalls, now, handled, last, writers, fn, arg, ret>>

\* one pass of `for file_path in file_paths`; an exception ends the run
CliFile ==
    /\ cliPc = "loop"
    /\ cliPos <= Len(cliArgs)
    /\ handled < MaxDocs
    /\ \E reply \in Replies, t \in {now, now + 1} :
          Handle("cli", cliArgs[cliPos], CliBody[cliArgs[cliPos], reply, pdfSupport, t], t)
    /\ cliPc' = (IF last'.raised THEN "crashed" ELSE "loop")
    /\ cliPos' = (IF last'.raised THEN cliPos ELSE cliPos + 1)
    /\ UNCHANGED <<pdfSupport, cliArgs, writers, fn, arg, ret>>

\* the loop is over: the final summary is printed and main returns
CliEnd ==
    /\ cliPc = "loop"
    /\ cliPos > Len(cliArgs)
    /\ cliPc' = "done"
    /\ cliArgs' = <<>>
    /\ cliPos' = 1
    /\ UNCHANGED <<pdfSupport, csvExists, csvText, appends, jsonDir, tmpFiles, tmpMade,
                   gatewayCalls, now, handled, last, writers, fn, arg, ret>>

\* app.py main: the handler of the "Extrair Dados" button for one upload; the
\* log has one writer at a time, so no upload is handled during a CLI run
WebButton ==
    /\ fn = ""
    /\ cliPc # "loop"
    /\ handled < MaxDocs
    /\ \E doc \in Uploads(pdfSupport), reply \in Replies, t \in {now, now + 1} :
          Handle("web", doc, WebBody[doc, reply, pdfSupport, t], t)
    /\ UNCHANGED <<pdfSupport, cliArgs, cliPos, cliPc, writers, fn, arg, ret>>

Next == CliStart \/ CliFile \/ CliEnd \/ WebButton

Spec == Init /\ [][Next]_vars

(***************************************************************************)
(* Pure functions, each applied to inputs drawn from bounded sets          *)
(***************************************************************************)
MaxLen == 5       \* characters of a value given to clean_value
MaxKeys == 2      \* keys of a path given to safe_get
MaxBody == 3      \* atoms of the string inside a fenced payload

\* no document is handled while a pure function is studied
InitPure == Init /\ pdfSupport = FALSE

\* clean_value: null, numbers, and strings of ordinary characters, spaces,
\* newlines and carriage returns
ValueChars == {"a", " ", "\n", "\r"}

CleanInputs == {None, Num(0), Num(7)} \cup {Str(s) : s \in SeqsUpTo(ValueChars, MaxLen)}

\* clean_value(v)
CleanOnce ==
    /\ fn = ""
    /\ \E v \in CleanInputs :
          /\ arg' = v
          /\ ret' = <<clean_value(v)>>
    /\ fn' = "clean_value"
    /\ UNCHANGED progVars

\* clean_value(clean_value(v))
CleanTwice ==
    /\ fn = "clean_value"
    /\ Len(ret) = 1
    /\ ret' = Append(ret, clean_value(ret[1]))
    /\ UNCHANGED <<progVars, fn, arg>>

NextClean == CleanOnce \/ CleanTwice

SpecClean == InitPure /\ [][NextClean]_vars

\* safe_get: values nested up to three deep, with null, falsy and non-mapping
\* values on the way; paths over three keys; three defaults
GetData ==
    {None, Num(1), Str(<<"s">>), Arr(<<Num(1)>>), EmptyDict,
     Obj(<<Entry("a", None)>>),
     Obj(<<Entry("a", Num(0))>>),
     Obj(<<Entry("a", EmptyStr), Entry("b", EmptyDict)>>),
     Obj(<<Entry("a", Str(<<"s">>)), Entry("b", Arr(<<Num(1)>>))>>),
     Obj(<<Entry("a", Obj(<<Entry("b", Num(2))>>))>>),
     Obj(<<Entry("a", Obj(<<Entry("b", None)>>)), Entry("c", Num(3))>>),
     Obj(<<Entry("a", Obj(<<Entry("b", Obj(<<Entry("c", Num(3))>>))>>))>>),
     Obj(<<Entry("a", Obj(<<Entry("b", Obj(<<Entry("c", None)>>))>>))>>)}

GetKeys == {K("a"), K("b"), K("c")}

GetDefaults == {EmptyStr, Num(0), None}

\* safe_get(data, *keys, default=default)
SafeGetCall ==
    /\ fn = ""
    /\ \E data \in GetData, keys \in SeqsUpTo(GetKeys, MaxKeys), default \in GetDefaults :
          /\ arg' = [data |-> data, keys |-> keys, default |-> default]
          /\ ret' = safe_get(data, keys, default)
    /\ fn' = "safe_get"
    /\ UNCHANGED progVars

NextSafeGet == SafeGetCall

SpecSafeGet == InitPure /\ [][NextSafeGet]_vars

\* the normaliser: a JSON object whose string value may hold backquotes,
\* wrapped in fence markers and surrounded by whitespace
Payloads ==
    {Obj(<<Entry("a", Num(1))>>)}
        \cup {Obj(<<Entry("a", Str(body))>>) : body \in SeqsUpTo({"x", BQ}, MaxBody)}

Openers == {FenceJson, Fence}

Blanks == {<<>>, <<" ">>, <<"\n">>}

Wrap(text, opener, before, after) ==
    before \o opener \o <<"\n">> \o text \o <<"\n">> \o Fence \o after

\* json.loads of the payload alone, and the normaliser and json.loads applied
\* to the payload in its fences
FenceCall ==
    /\ fn = ""
    /\ \E payload \in Payloads, opener \in Openers, before \in Blanks, after \in Blanks :
          /\ arg' = [payload |-> json_dump(payload, 0),
                     text |-> Wrap(json_dump(payload, 0), opener, before, after)]
          /\ ret' = [alone |-> json_loads(json_dump(payload, 0)),
                     fenced |-> ParseReply(Wrap(json_dump(payload, 0), opener, before, after))]
    /\ fn' = "normalize"
    /\ UNCHANGED progVars

NextFence == FenceCall

SpecFence == InitPure /\ [][NextFence]_vars

\* append_to_csv of both front-ends on one record: emitente, itens and
\* impostos null, empty, well-formed, untidy or of the wrong type, with the
\* _metadata extract_invoice_data attaches
RowEmitentes ==
    {None, Str(<<"ACME">>), EmptyDict,
     Obj(<<Entry("razao_social", Str(<<"ACME">>)), Entry("cnpj", Str(<<"00.000.000/0001-00">>)),
           Entry("endereco", Str(<<"Rua", " ", "X">>))>>),
     Obj(<<Entry("razao_social", Str(<<" ", "ACME", "\n", " ", "Ltda", " ", " ", "SA", "\r">>))>>),
     Obj(<<Entry("razao_social", None), Entry("cnpj", Num(7))>>)}

RowItens ==
    {None, EmptyList, Num(5), Str(<<"x">>),
     Arr(<<Obj(<<Entry("descricao", Str(<<"Item", " ", "A">>))>>)>>)}

RowImpostos ==
    {None, EmptyDict, Str(<<"isento">>), Obj(<<Entry("icms", Num(1)), Entry("iss", None)>>)}

RowRecord(emitente, itens, impostos) ==
    DictSet(Obj(<<Entry("emitente", emitente),
                  Entry("data_emissao", Str(<<"01/01/2024">>)),
                  Entry("numero_nota", Str(<<"123">>)),
                  Entry("itens", itens),
                  Entry("valor_total_nota", Num(9)),
                  Entry("impostos", impostos)>>),
            K("_metadata"), Metadata(<<"nota", ".", "jpg">>, <<".", "jpg">>, 1, 0))

\* append_to_csv(invoice_data) of invoice_extractor.py and of app.py
RowCall ==
    /\ fn = ""
    /\ \E emitente \in RowEmitentes, itens \in RowItens, impostos \in RowImpostos :
          /\ arg' = RowRecord(emitente, itens, impostos)
          /\ ret' = [cli |-> cli_csv_row(RowRecord(emitente, itens, impostos)),
                     web |-> web_csv_row(RowRecord(emitente, itens, impostos))]
    /\ fn' = "append_to_csv"
    /\ UNCHANGED progVars

NextRow == RowCall

SpecRow == InitPure /\ [][NextRow]_vars

(***************************************************************************)
(* append_to_csv run by several processes at once, with no lock: each      *)
(* process tests CSV_FILE.exists(), opens the file for appending (which    *)
(* creates it), writes the header if its test found no file and the row    *)
(* into the file object's buffer, and the buffer reaches the file when     *)
(* the with block closes it.                                               *)
(***************************************************************************)
MaxWriters == 2   \* processes inside append_to_csv at the same time

Writers == 1..MaxWriters

\* the rows the processes append
RaceRows ==
    {web_csv_row(RowRecord(emitente, EmptyList, None)).row :
        emitente \in {None, Obj(<<Entry("razao_social", Str(<<"ACME">>))>>)}}

\* what append_to_csv never touches
raceFrame == <<pdfSupport, jsonDir, tmpFiles, tmpMade, gatewayCalls, now, cliArgs,
               cliPos, cliPc, handled, last, fn, arg, ret>>

Writer(pc, file_exists, row, buf) ==
    [pc |-> pc, file_exists |-> file_exists, row |-> row, buf |-> buf]

InitRace ==
    /\ InitRun
    /\ pdfSupport = FALSE
    /\ writers = [p \in Writers |-> Writer("start", FALSE, <<>>, <<>>)]

\* file_exists = CSV_FILE.exists(), on entering append_to_csv with a row
RaceCheck(p) ==
    /\ writers[p].pc = "start"
    /\ \E row \in RaceRows :
          writers' = [writers EXCEPT ![p] = Writer("checked", csvExists, row, <<>>)]
    /\ UNCHANGED <<csvExists, csvText, appends, raceFrame>>

\* open(CSV_FILE, 'a', ...): creates the file when there is none
RaceOpen(p) ==
    /\ writers[p].pc = "checked"
    /\ writers' = [writers EXCEPT ![p].pc = "open"]
    /\ csvExists' = TRUE
    /\ UNCHANGED <<csvText, appends, raceFrame>>

\* if not file_exists: writer.writeheader(); writer.writerow(row)
RaceWrite(p) ==
    /\ writers[p].pc = "open"
    /\ writers' = [writers EXCEPT ![p].pc = "written",
                                  ![p].buf = csv_write(writers[p].file_exists,
                                                       RowLine(writers[p].row))]
    /\ UNCHANGED <<csvExists, csvText, appends, raceFrame>>

\* the end of the with block: the buffer is appended to the file
RaceClose(p) ==
    /\ writers[p].pc = "written"
    /\ writers' = [writers EXCEPT ![p].pc = "closed"]
    /\ csvText' = csvText \o writers[p].buf
    /\ appends' = appends + 1
    /\ UNCHANGED <<csvExists, raceFrame>>

NextRace == \E p \in Writers : RaceCheck(p) \/ RaceOpen(p) \/ RaceWrite(p) \/ RaceClose(p)

SpecRace == InitRace /\ [][NextRace]_vars

\* the positions of a log at which a header line starts
HeaderStarts(text) ==
    {i \in 1..(Len(text) - Len(HeaderLine) + 1) :
        SubSeq(text, i, i + Len(HeaderLine) - 1) = HeaderLine}

(***************************************************************************)
(* Properties                                                              *)
(***************************************************************************)
\* C1: when the extraction of a document fails, for whatever reason, neither
\* save_json nor append_to_csv runs for it, and handling it leaves the JSON
\* artifacts and the consolidated log as they were.
C1_NoPartialPersistence ==
    [][(handled' = handled + 1 /\ last'.extract # "ok")
          => /\ ~last'.saved
             /\ ~last'.appended
             /\ jsonDir' = jsonDir
             /\ csvText' = csvText
             /\ csvExists' = csvExists]_vars

\* a gateway-side failure after an earlier document was stored
C1_Witness ==
    /\ last.extract = "fail"
    /\ last.called
    /\ jsonDir # {}
    /\ appends >= 1

\* C2: no exception leaves extract_invoice_data: every call returns a record
\* or a failure result, whether the failure arises in load_file, in the
\* gateway call or in the normaliser.
C2_NoExceptionEscapes == last.extract # "raise"

\* C3: after N >= 1 successful append_to_csv calls on a log that did not
\* exist, the log is one header line, written once and first, followed by
\* exactly N data lines, whatever the records hold.
C3_OneHeaderNLines ==
    csvExists =>
        /\ appends >= 1
        /\ SubSeq(csvText, 1, Len(HeaderLine)) = HeaderLine
        /\ Cardinality({i \in 1..(Len(csvText) - Len(HeaderLine) + 1) :
                           SubSeq(csvText, i, i + Len(HeaderLine) - 1) = HeaderLine}) = 1
        /\ Cardinality({i \in 1..Len(csvText) : csvText[i] = "\n"}) = appends + 1

\* C4: a temporary file the web load_file creates no longer exists once
\* load_file has returned or raised.
C4_TempFileRemoved == tmpFiles = 0

\* C5: every field of a row appended to the log that is no number is written
\* cleaned: empty for null, without leading or trailing whitespace, without
\* newline or carriage return, without two spaces in a row.
C5_RowCleaned ==
    last.appended =>
        \A i \in 1..Len(last.row) :
            last.row[i].t # "num" =>
                LET text == CsvCellText(last.row[i]) IN
                /\ text # <<>> => (text[1] \notin Whitespace /\ text[Len(text)] \notin Whitespace)
                /\ \A j \in 1..Len(text) : text[j] \notin {"\n", "\r"}
                /\ ~Contains(text, <<" ", " ">>)

\* C6: a record returned by a successful extract_invoice_data has every
\* top-level field of the schema, null or not.
C6_SchemaComplete ==
    last.extract = "ok" =>
        \A field \in {"emitente", "data_emissao", "numero_nota", "itens",
                      "valor_total_nota", "impostos", "_metadata"} :
            HasKey(last.data, K(field))

\* the value at the end of a path, reached one key at a time from the last
\* key back: there is none when a key is absent or a value on the way is no
\* mapping
RECURSIVE Follow(_, _)
Follow(data, keys) ==
    IF keys = <<>> THEN [found |-> TRUE, v |-> data]
    ELSE LET before == Follow(data, SubSeq(keys, 1, Len(keys) - 1))
             key == keys[Len(keys)]
         IN  IF before.found /\ IsDict(before.v) /\ HasKey(before.v, key)
             THEN [found |-> TRUE, v |-> Lookup(before.v, key)]
             ELSE [found |-> FALSE, v |-> None]

\* C7: safe_get returns the default when a key of the path is absent, a value
\* on the way is no mapping, or a value along the path, the last included, is
\* null; otherwise it returns the value at the end of the path.  It always
\* returns.
C7_NullSafeAccessor ==
    fn = "safe_get" =>
        LET end == Follow(arg.data, arg.keys)
            nulls == {i \in 0..Len(arg.keys) :
                         Follow(arg.data, SubSeq(arg.keys, 1, i)) = [found |-> TRUE, v |-> None]}
        IN  ret = (IF end.found /\ nulls = {} THEN end.v ELSE arg.default)

\* the example of the specification: a null on the way, two keys, and the
\* default comes back
C7_Witness ==
    /\ fn = "safe_get"
    /\ arg.data = Obj(<<Entry("a", None)>>)
    /\ arg.keys = <<K("a"), K("b")>>
    /\ arg.default = EmptyStr
    /\ ret = EmptyStr

\* C8: cleaning a cleaned value changes nothing:
\* clean_value(clean_value(v)) = clean_value(v).
C8_CleanIdempotent == (fn = "clean_value" /\ Len(ret) = 2) => ret[2] = ret[1]

\* a string the first pass changed, cleaned a second time
C8_Witness ==
    /\ fn = "clean_value"
    /\ Len(ret) = 2
    /\ arg.t = "str"
    /\ Contains(arg.s, <<" ", "\n">>)
    /\ ret[1] # arg
    /\ ret[1] # EmptyStr

\* C9: a JSON object wrapped in fence markers, with or without whitespace
\* around, parses after normalisation to what the object alone parses to.
C9_FencePreservesPayload == fn = "normalize" => (ret.alone.ok /\ ret.fenced = ret.alone)

C11_ArtifactAndRowPaired == last.extract = "ok" => (last.saved <=> last.appended)

\* C12: a CLI run attempts every file of its list, in order, whatever happens
\* to the files before: no exception ends the run before the loop is over,
\* and a run that is over has gone past its last file.
C12_BatchProgress ==
    /\ cliPc # "crashed"
    /\ cliPc = "loop" => cliPos \in 1..(Len(cliArgs) + 1)

\* C13: on every record the CLI append_to_csv and the web append_to_csv
\* succeed or fail together, and when they succeed they append the same
\* 12-column row to the log.
C13_SameRowInBothFrontEnds ==
    fn = "append_to_csv" =>
        /\ ret.cli.ok = ret.web.ok
        /\ ret.cli.ok => RowLine(ret.cli.row) = RowLine(ret.web.row)

\* C14: with no single-writer discipline, two processes that both tested
\* for the log before either created it both write a header: once they are
\* done the log holds more than one header line, one of them after a data
\* row.
C14_ConcurrentAppendsCorruptLog ==
    (/\ writers # <<>>
     /\ \A p \in DOMAIN writers : writers[p].pc = "closed"
     /\ Cardinality({p \in DOMAIN writers : ~writers[p].file_exists}) >= 2)
        => /\ Cardinality(HeaderStarts(csvText)) > 1
           /\ \E i \in HeaderStarts(csvText) : i > Len(HeaderLine) + 1

\* both processes found no log, both are done, and the log has two headers
C14_Witness ==
    /\ writers # <<>>
    /\ \A p \in DOMAIN writers : writers[p].pc = "closed" /\ ~writers[p].file_exists
    /\ Cardinality(DOMAIN writers) >= 2
    /\ Cardinality(HeaderStarts(csvText)) >= 2

====
